---------------------------- MODULE Spec2Model ----------------------------
(***************************************************************************)
(* Model of sandbox/check_dynamics.py: the RK4 integrator factory, the     *)
(* Newtonian and Hamiltonian dynamics functions, the Euler-discretised     *)
(* linear model and the driver that runs the three of them for 5 steps.    *)
(*                                                                         *)
(* Python floats are modelled as exact rationals <<numerator, denominator>>*)
(* in lowest terms with a positive denominator; numpy arrays are sequences *)
(* of such rationals.  Every arithmetic operator of the script (+, *, /,   *)
(* @) is computed on these rationals, so no rounding is modelled: the      *)
(* quantities below are the exact values the script approximates to        *)
(* within double precision.                                                *)
(*                                                                         *)
(* The program is modelled one Python statement per action.  A statement   *)
(* that calls integrator or a dynamics function is split in two: the call  *)
(* (bind the parameters, enter the callee) and its completion (use the     *)
(* returned value).  discretize_dynamics_rk4 and linear_dynamics, which    *)
(* only build a value, are evaluated within the statement that calls them. *)
(*                                                                         *)
(* Three specifications: Spec (FairSpec with fairness) is the script as    *)
(* written; SpecPar is its loop with the three simulations scheduled in    *)
(* any order; SpecCaller applies the functions to arguments other than the *)
(* script's.                                                               *)
(***************************************************************************)
EXTENDS Integers, Sequences, FiniteSets, TLC

----------------------------------------------------------------------------
(* Exact rational arithmetic standing for float arithmetic.                *)

\* Python evaluates the operands of an operator once, before it applies
\* the operator.  OnValue and OnValues do the same: they bind the values of
\* their operands and apply Op to these.
OnValue(Op(_), a) == CHOOSE r \in {Op(x) : x \in {a}} : TRUE

OnValues(Op(_, _), a, b) == CHOOSE r \in {Op(x, y) : x \in {a}, y \in {b}} : TRUE

Abs(n) == IF n < 0 THEN -n ELSE n

RECURSIVE GCD(_, _)
GCDStep(a, b) == IF b = 0 THEN a ELSE GCD(b, a % b)

\* The greatest common divisor of two naturals (Euclid).
GCD(a, b) == OnValues(GCDStep, a, b)

LowestTerms(n, d) ==
    <<((IF d < 0 THEN -1 ELSE 1) * n) \div GCD(Abs(n), Abs(d)),
      ((IF d < 0 THEN -1 ELSE 1) * d) \div GCD(Abs(n), Abs(d))>>

\* The rational n/d (d # 0) in lowest terms with a positive denominator.
Rat(n, d) == OnValues(LowestTerms, n, d)

\* The least common multiple of two positive naturals.
LCM(a, b) == (a \div GCD(a, b)) * b

SumOver(a, b, L) == Rat(a[1] * (L \div a[2]) + b[1] * (L \div b[2]), L)

Sum(a, b) == OnValue(LAMBDA L : SumOver(a, b, L), LCM(a[2], b[2]))

\* a + b
RAdd(a, b) == OnValues(Sum, a, b)

Negative(a) == <<-a[1], a[2]>>

\* -a
RNeg(a) == OnValue(Negative, a)

\* a - b
RSub(a, b) == RAdd(a, RNeg(b))

ProductOver(a, b, g1, g2) ==
    Rat((a[1] \div g1) * (b[1] \div g2), (a[2] \div g2) * (b[2] \div g1))

Product(a, b) ==
    OnValues(LAMBDA g1, g2 : ProductOver(a, b, g1, g2),
             GCD(Abs(a[1]), b[2]), GCD(Abs(b[1]), a[2]))

\* a * b
RMul(a, b) == OnValues(Product, a, b)

Inverse(b) == IF b[1] > 0 THEN <<b[2], b[1]>> ELSE <<-b[2], -b[1]>>

\* a / b, b # 0
RDiv(a, b) == RMul(a, OnValue(Inverse, b))

\* a <= b
RLe(a, b) == RSub(a, b)[1] <= 0

Magnitude(a) == <<Abs(a[1]), a[2]>>

\* abs(a)
RAbs(a) == OnValue(Magnitude, a)

\* An integer literal used as a float.
RInt(n) == <<n, 1>>

----------------------------------------------------------------------------
(* numpy array arithmetic: elementwise +, scalar * array, array / scalar,  *)
(* matrix @ vector.                                                        *)

ElementwiseSum(u, v) == [i \in 1..Len(u) |-> RAdd(u[i], v[i])]

\* u + v, elementwise
VAdd(u, v) == OnValues(ElementwiseSum, u, v)

Scaled(c, v) == [i \in 1..Len(v) |-> RMul(c, v[i])]

\* c * v, c a scalar
VScale(c, v) == OnValues(Scaled, c, v)

Divided(v, c) == [i \in 1..Len(v) |-> RDiv(v[i], c)]

\* v / c, c a scalar
VDiv(v, c) == OnValues(Divided, v, c)

RECURSIVE RSum(_)
SumOfRest(s) == IF s = <<>> THEN RInt(0) ELSE RAdd(s[1], RSum(Tail(s)))

\* The sum of a sequence of numbers.
RSum(s) == OnValue(SumOfRest, s)

RowsTimes(M, v) ==
    [i \in 1..Len(M) |-> RSum([j \in 1..Len(v) |-> RMul(M[i][j], v[j])])]

\* M @ v, M a sequence of rows
MatVec(M, v) == OnValues(RowsTimes, M, v)

----------------------------------------------------------------------------
(* The dynamics functions.                                                 *)

\* The literal 2.0 of "Ix = Iy = 2.0" in the functions and in the driver.
Inertia == RInt(2)

\* np.array([th1d, th2d, T1/Ix, T2/Iy])
NewtonianReturn(th1d, th2d, T1, T2, Ix_, Iy_) ==
    <<th1d, th2d, RDiv(T1, Ix_), RDiv(T2, Iy_)>>

newtonian_dynamics(state, control_) ==
    LET Ix_ == Inertia
        Iy_ == Inertia
        th1d == state[3]
        th2d == state[4]
        T1 == control_[1]
        T2 == control_[2]
    IN  NewtonianReturn(th1d, th2d, T1, T2, Ix_, Iy_)

\* A variant that divides the torques by the inertias, as the Newtonian
\* function does.
HamiltonianReturn_DividesTorque(p1, p2, T1, T2, Ix_, Iy_) ==
    <<RDiv(p1, Ix_), RDiv(p2, Iy_), RDiv(T1, Ix_), RDiv(T2, Iy_)>>

\* np.array([p1/Ix, p2/Iy, T1, T2])
HamiltonianReturn(p1, p2, T1, T2, Ix_, Iy_) ==
    <<RDiv(p1, Ix_), RDiv(p2, Iy_), T1, T2>>

hamiltonian_dynamics(state, control_) ==
    LET Ix_ == Inertia
        Iy_ == Inertia
        p1 == state[3]
        p2 == state[4]
        T1 == control_[1]
        T2 == control_[2]
    IN  HamiltonianReturn(p1, p2, T1, T2, Ix_, Iy_)

\* The two functions the driver passes to the factory, by name.
DynamicsNames == {"newtonian_dynamics", "hamiltonian_dynamics"}

----------------------------------------------------------------------------
(* The integrator's statements.                                            *)

\* k = dt * f(...), given the value f returned
Stage(dt_, fval) == VScale(dt_, fval)

\* A variant that evaluates f a whole k ahead instead of half of it.
HalfArg_Whole(state, k) == VAdd(state, k)

\* state + k/2, the argument of the second and third call of f
HalfArg(state, k) == VAdd(state, VDiv(k, RInt(2)))

\* state + k3, the argument of the fourth call of f
FullArg(state, k) == VAdd(state, k)

\* A variant without the weights 2 of k2 and k3.
Combine_Unweighted(state, k1, k2, k3, k4) ==
    VAdd(state, VDiv(VAdd(VAdd(VAdd(k1, k2), k3), k4), RInt(6)))

\* state + (k1 + 2*k2 + 2*k3 + k4)/6
Combine(state, k1, k2, k3, k4) ==
    VAdd(state,
         VDiv(VAdd(VAdd(VAdd(k1, VScale(RInt(2), k2)), VScale(RInt(2), k3)), k4),
              RInt(6)))

\* The closure discretize_dynamics_rk4(f, dt) returns: the function integrator
\* with the cells f and dt of the enclosing call.
discretize_dynamics_rk4(f, dt_) == <<f, dt_>>

\* f(state, control), f one of the two dynamics functions, by name
CallDynamics(f, state, control_) ==
    IF f = "newtonian_dynamics"
      THEN newtonian_dynamics(state, control_)
      ELSE hamiltonian_dynamics(state, control_)

\* closure(state, control, dt): a whole call of integrator, as a function of
\* its arguments.  The parameter dt shadows the closure's cell dt.
integrator(closure, state, control_, dt_) ==
    LET f == closure[1]
        k1 == Stage(dt_, CallDynamics(f, state, control_))
        k2 == Stage(dt_, CallDynamics(f, HalfArg(state, k1), control_))
        k3 == Stage(dt_, CallDynamics(f, HalfArg(state, k2), control_))
        k4 == Stage(dt_, CallDynamics(f, FullArg(state, k3), control_))
    IN  Combine(state, k1, k2, k3, k4)

----------------------------------------------------------------------------
(* The linear model.                                                       *)

\* A variant whose B leaves the inertias out.
linear_dynamics_NoInertia(dt_) ==
    LET O == RInt(0)
        I == RInt(1)
        A_ == << <<I, O, dt_, O>>, <<O, I, O, dt_>>, <<O, O, I, O>>, <<O, O, O, I>> >>
        B_ == << <<O, O>>, <<O, O>>, <<dt_, O>>, <<O, dt_>> >>
    IN  <<A_, B_>>

linear_dynamics(dt_) ==
    LET Ix_ == Inertia
        Iy_ == Inertia
        O == RInt(0)
        I == RInt(1)
        A_ == << <<I, O, dt_, O>>, <<O, I, O, dt_>>, <<O, O, I, O>>, <<O, O, O, I>> >>
        B_ == << <<O, O>>, <<O, O>>, <<RDiv(dt_, Ix_), O>>, <<O, RDiv(dt_, Iy_)>> >>
    IN  <<A_, B_>>

\* A @ L_x0 + B @ control
LinearStep(A_, B_, x, u) == VAdd(MatVec(A_, x), MatVec(B_, u))

----------------------------------------------------------------------------
(* State.                                                                  *)

VARIABLES
    pc,        \* the driver's position: the line it executes next
    globals,   \* the script's names (Ix, Iy, dth1_0, ..., A, B, tt) and their values
    rng,       \* how many values the iterator of range(5) has yielded
    stdout,    \* what print has written, in order
    ipc,       \* integrator's position, "none" when it is not running
    ifr,       \* integrator's frame: its closure cells and its locals
    iret,      \* the value integrator returned last
    dpc,       \* the dynamics function's position, "none" when none is running
    nfr,       \* newtonian_dynamics's frame
    hfr,       \* hamiltonian_dynamics's frame
    dret,      \* the value the dynamics function returned last
    hSteps,    \* completed applications of ham_dyns   (history)
    nSteps,    \* completed applications of newt_dyns  (history)
    lSteps     \* completed applications of A@L_x0+B@control (history)

vars == <<pc, globals, rng, stdout, ipc, ifr, iret, dpc, nfr, hfr, dret,
          hSteps, nSteps, lSteps>>

\* The value of a name that is not bound yet.
Unbound == <<>>

\* range(5)
NumIters == 5

GlobalNames ==
    {"Ix", "Iy", "dth1_0", "dth2_0", "p1_0", "p2_0", "dt", "control",
     "n_x0", "h_x0", "L_x0", "ham_dyns", "newt_dyns", "A", "B", "tt"}

\* The driver's names, read in the formulas below.
h_x0 == globals.h_x0
n_x0 == globals.n_x0
L_x0 == globals.L_x0
control == globals.control
dt == globals.dt
A == globals.A
B == globals.B

NewtFrame(state, control_) ==
    [state |-> state, control |-> control_, Ix |-> Unbound, Iy |-> Unbound,
     th1 |-> Unbound, th2 |-> Unbound, th1d |-> Unbound, th2d |-> Unbound,
     T1 |-> Unbound, T2 |-> Unbound]

HamFrame(state, control_) ==
    [state |-> state, control |-> control_, Ix |-> Unbound, Iy |-> Unbound,
     q1 |-> Unbound, q2 |-> Unbound, p1 |-> Unbound, p2 |-> Unbound,
     T1 |-> Unbound, T2 |-> Unbound]

\* integrator's frame: the closure's cells f and dt, the parameters and the
\* locals.
IntegratorFrame(closure, state, control_, dt_) ==
    [f |-> closure[1], cell_dt |-> closure[2],
     state |-> state, control |-> control_, dt |-> dt_,
     k1 |-> Unbound, k2 |-> Unbound, k3 |-> Unbound, k4 |-> Unbound]

\* The frames of functions that are not running.
NoNewtFrame == NewtFrame(Unbound, Unbound)
NoHamFrame == HamFrame(Unbound, Unbound)
NoIntegratorFrame == IntegratorFrame(<<"none", Unbound>>, Unbound, Unbound, Unbound)

calls == <<ipc, ifr, iret, dpc, nfr, hfr, dret>>
steps == <<hSteps, nSteps, lSteps>>

\* No call is in progress.
Idle ==
    /\ ipc = "none"
    /\ dpc = "none"

InitCalls ==
    /\ ipc = "none"
    /\ ifr = NoIntegratorFrame
    /\ iret = Unbound
    /\ dpc = "none"
    /\ nfr = NoNewtFrame
    /\ hfr = NoHamFrame
    /\ dret = Unbound

\* The script starts with nothing bound and nothing printed.
Init ==
    /\ pc = "L41"
    /\ globals = [n \in GlobalNames |-> Unbound]
    /\ rng = 0
    /\ stdout = <<>>
    /\ InitCalls
    /\ hSteps = 0
    /\ nSteps = 0
    /\ lSteps = 0

----------------------------------------------------------------------------
(* The dynamics functions, statement by statement.                         *)

\* Ix = Iy = 2.0
N16 ==
    /\ dpc = "L16"
    /\ nfr' = [nfr EXCEPT !.Ix = Inertia, !.Iy = Inertia]
    /\ dpc' = "L17"
    /\ UNCHANGED <<pc, globals, rng, stdout, ipc, ifr, iret, hfr, dret, steps>>

\* th1, th2, th1d, th2d = state
N17 ==
    /\ dpc = "L17"
    /\ nfr' = [nfr EXCEPT !.th1 = nfr.state[1], !.th2 = nfr.state[2],
                          !.th1d = nfr.state[3], !.th2d = nfr.state[4]]
    /\ dpc' = "L18"
    /\ UNCHANGED <<pc, globals, rng, stdout, ipc, ifr, iret, hfr, dret, steps>>

\* T1, T2 = control
N18 ==
    /\ dpc = "L18"
    /\ nfr' = [nfr EXCEPT !.T1 = nfr.control[1], !.T2 = nfr.control[2]]
    /\ dpc' = "L19"
    /\ UNCHANGED <<pc, globals, rng, stdout, ipc, ifr, iret, hfr, dret, steps>>

\* return np.array([th1d, th2d, T1/Ix, T2/Iy])
N19 ==
    /\ dpc = "L19"
    /\ dret' = NewtonianReturn(nfr.th1d, nfr.th2d, nfr.T1, nfr.T2, nfr.Ix, nfr.Iy)
    /\ nfr' = NoNewtFrame
    /\ dpc' = "none"
    /\ UNCHANGED <<pc, globals, rng, stdout, ipc, ifr, iret, hfr, steps>>

\* Ix = Iy = 2.0
H25 ==
    /\ dpc = "L25"
    /\ hfr' = [hfr EXCEPT !.Ix = Inertia, !.Iy = Inertia]
    /\ dpc' = "L26"
    /\ UNCHANGED <<pc, globals, rng, stdout, ipc, ifr, iret, nfr, dret, steps>>

\* q1, q2, p1, p2 = state
H26 ==
    /\ dpc = "L26"
    /\ hfr' = [hfr EXCEPT !.q1 = hfr.state[1], !.q2 = hfr.state[2],
                          !.p1 = hfr.state[3], !.p2 = hfr.state[4]]
    /\ dpc' = "L27"
    /\ UNCHANGED <<pc, globals, rng, stdout, ipc, ifr, iret, nfr, dret, steps>>

\* T1, T2 = control
H27 ==
    /\ dpc = "L27"
    /\ hfr' = [hfr EXCEPT !.T1 = hfr.control[1], !.T2 = hfr.control[2]]
    /\ dpc' = "L28"
    /\ UNCHANGED <<pc, globals, rng, stdout, ipc, ifr, iret, nfr, dret, steps>>

\* return np.array([p1/Ix, p2/Iy, T1, T2])
H28 ==
    /\ dpc = "L28"
    /\ dret' = HamiltonianReturn(hfr.p1, hfr.p2, hfr.T1, hfr.T2, hfr.Ix, hfr.Iy)
    /\ hfr' = NoHamFrame
    /\ dpc' = "none"
    /\ UNCHANGED <<pc, globals, rng, stdout, ipc, ifr, iret, nfr, steps>>

Dynamics == N16 \/ N17 \/ N18 \/ N19 \/ H25 \/ H26 \/ H27 \/ H28

----------------------------------------------------------------------------
(* integrator, statement by statement.  Each of the lines 8 to 11 first    *)
(* calls f (the cell of the closure) and then, when f has returned, binds  *)
(* its k.                                                                  *)

\* f(arg, control): enter the function the closure's cell f names.
CallF(arg, here, back) ==
    /\ ipc = here
    /\ dpc = "none"
    /\ \/ /\ ifr.f = "newtonian_dynamics"
          /\ nfr' = NewtFrame(arg, ifr.control)
          /\ dpc' = "L16"
          /\ hfr' = hfr
       \/ /\ ifr.f = "hamiltonian_dynamics"
          /\ hfr' = HamFrame(arg, ifr.control)
          /\ dpc' = "L25"
          /\ nfr' = nfr
    /\ ipc' = back
    /\ UNCHANGED <<pc, globals, rng, stdout, ifr, iret, dret, steps>>

\* A variant that reads the closure's cell dt, as if the parameter did not
\* shadow it.
StepSize_Cell(frame) == frame.cell_dt

\* The step size integrator multiplies by: its parameter dt, which shadows
\* the cell dt of the closure.
StepSize(frame) == frame.dt

\* k1 = dt*f(state,control)
I8call == CallF(ifr.state, "L8", "L8r")

I8 ==
    /\ ipc = "L8r"
    /\ dpc = "none"
    /\ ifr' = [ifr EXCEPT !.k1 = Stage(StepSize(ifr), dret)]
    /\ ipc' = "L9"
    /\ UNCHANGED <<pc, globals, rng, stdout, iret, dpc, nfr, hfr, dret, steps>>

\* k2 = dt*f(state+k1/2,control)
I9call == CallF(HalfArg(ifr.state, ifr.k1), "L9", "L9r")

I9 ==
    /\ ipc = "L9r"
    /\ dpc = "none"
    /\ ifr' = [ifr EXCEPT !.k2 = Stage(StepSize(ifr), dret)]
    /\ ipc' = "L10"
    /\ UNCHANGED <<pc, globals, rng, stdout, iret, dpc, nfr, hfr, dret, steps>>

\* k3 = dt*f(state+k2/2,control)
I10call == CallF(HalfArg(ifr.state, ifr.k2), "L10", "L10r")

I10 ==
    /\ ipc = "L10r"
    /\ dpc = "none"
    /\ ifr' = [ifr EXCEPT !.k3 = Stage(StepSize(ifr), dret)]
    /\ ipc' = "L11"
    /\ UNCHANGED <<pc, globals, rng, stdout, iret, dpc, nfr, hfr, dret, steps>>

\* k4 = dt*f(state+k3, control)
I11call == CallF(FullArg(ifr.state, ifr.k3), "L11", "L11r")

I11 ==
    /\ ipc = "L11r"
    /\ dpc = "none"
    /\ ifr' = [ifr EXCEPT !.k4 = Stage(StepSize(ifr), dret)]
    /\ ipc' = "L12"
    /\ UNCHANGED <<pc, globals, rng, stdout, iret, dpc, nfr, hfr, dret, steps>>

\* A variant that keeps a buffer between calls: it adds the increment to
\* what it returned last, when it has returned something.
I12_KeepsBuffer ==
    /\ ipc = "L12"
    /\ dpc = "none"
    /\ iret' = Combine(IF iret = Unbound THEN ifr.state ELSE iret,
                       ifr.k1, ifr.k2, ifr.k3, ifr.k4)
    /\ ifr' = NoIntegratorFrame
    /\ ipc' = "none"
    /\ UNCHANGED <<pc, globals, rng, stdout, dpc, nfr, hfr, dret, steps>>

\* return state+(k1+2*k2+2*k3+k4)/6
I12 ==
    /\ ipc = "L12"
    /\ dpc = "none"
    /\ iret' = Combine(ifr.state, ifr.k1, ifr.k2, ifr.k3, ifr.k4)
    /\ ifr' = NoIntegratorFrame
    /\ ipc' = "none"
    /\ UNCHANGED <<pc, globals, rng, stdout, dpc, nfr, hfr, dret, steps>>

Integrator ==
    I8call \/ I8 \/ I9call \/ I9 \/ I10call \/ I10 \/ I11call \/ I11 \/ I12

----------------------------------------------------------------------------
(* The driver (the __main__ block): what each statement binds, given the   *)
(* names g bound so far.                                                   *)

\* Ix = Iy = 2.0
Line41(g) == [g EXCEPT !.Ix = Inertia, !.Iy = Inertia]

\* dth1_0 = 0.15
Line42(g) == [g EXCEPT !.dth1_0 = Rat(15, 100)]

\* dth2_0 = -0.15
Line43(g) == [g EXCEPT !.dth2_0 = Rat(-15, 100)]

\* p1_0 = dth1_0*Ix
Line44(g) == [g EXCEPT !.p1_0 = RMul(g.dth1_0, g.Ix)]

\* p2_0 = dth2_0*Iy
Line45(g) == [g EXCEPT !.p2_0 = RMul(g.dth2_0, g.Iy)]

\* dt = 0.001
Line46(g) == [g EXCEPT !.dt = Rat(1, 1000)]

\* control = np.array([0.5, 0.5])
Line47(g) == [g EXCEPT !.control = <<Rat(1, 2), Rat(1, 2)>>]

\* n_x0 = np.array([0,0,dth1_0,dth2_0])
Line49(g) == [g EXCEPT !.n_x0 = <<RInt(0), RInt(0), g.dth1_0, g.dth2_0>>]

\* h_x0 = np.array([0,0,p1_0,p2_0])
Line50(g) == [g EXCEPT !.h_x0 = <<RInt(0), RInt(0), g.p1_0, g.p2_0>>]

\* L_x0 = np.array([0,0,dth1_0,dth2_0])
Line51(g) == [g EXCEPT !.L_x0 = <<RInt(0), RInt(0), g.dth1_0, g.dth2_0>>]

\* ham_dyns = discretize_dynamics_rk4(hamiltonian_dynamics, dt)
Line53(g) ==
    [g EXCEPT !.ham_dyns = discretize_dynamics_rk4("hamiltonian_dynamics", g.dt)]

\* newt_dyns = discretize_dynamics_rk4(newtonian_dynamics, dt)
Line54(g) ==
    [g EXCEPT !.newt_dyns = discretize_dynamics_rk4("newtonian_dynamics", g.dt)]

\* A,B = linear_dynamics(dt)
Line55(g) ==
    [g EXCEPT !.A = linear_dynamics(g.dt)[1], !.B = linear_dynamics(g.dt)[2]]

\* tt bound to the value v of range(5)
Line57(g, v) == [g EXCEPT !.tt = RInt(v)]

\* h_x0 = <the value ham_dyns returned>
Line58(g, returned) == [g EXCEPT !.h_x0 = returned]

\* A variant that binds the Newtonian result to h_x0 as well.
Line59_AlsoBindsHamiltonian(g, returned) ==
    [g EXCEPT !.n_x0 = returned, !.h_x0 = returned]

\* n_x0 = <the value newt_dyns returned>
Line59(g, returned) == [g EXCEPT !.n_x0 = returned]

\* A variant that advances the linear model from the Newtonian state.
Line60_FromNewtonian(g) ==
    [g EXCEPT !.L_x0 = LinearStep(g.A, g.B, g.n_x0, g.control)]

\* L_x0 = A@L_x0+B@control
Line60(g) == [g EXCEPT !.L_x0 = LinearStep(g.A, g.B, g.L_x0, g.control)]

----------------------------------------------------------------------------
(* The driver, statement by statement.                                     *)

\* A statement of the driver that binds names and calls nothing that is
\* modelled statement by statement.
Bind(here, next, new) ==
    /\ pc = here
    /\ Idle
    /\ globals' = new
    /\ pc' = next
    /\ UNCHANGED <<rng, stdout, calls, steps>>

L41 == Bind("L41", "L42", Line41(globals))
L42 == Bind("L42", "L43", Line42(globals))
L43 == Bind("L43", "L44", Line43(globals))
L44 == Bind("L44", "L45", Line44(globals))
L45 == Bind("L45", "L46", Line45(globals))
L46 == Bind("L46", "L47", Line46(globals))
L47 == Bind("L47", "L49", Line47(globals))
L49 == Bind("L49", "L50", Line49(globals))
L50 == Bind("L50", "L51", Line50(globals))
L51 == Bind("L51", "L52", Line51(globals))

\* print(label, value)
Print_(here, next, label, value) ==
    /\ pc = here
    /\ Idle
    /\ stdout' = Append(stdout, <<label, value>>)
    /\ pc' = next
    /\ UNCHANGED <<globals, rng, calls, steps>>

\* print(L_x0)
L52 == Print_("L52", "L53", "", globals.L_x0)

L53 == Bind("L53", "L54", Line53(globals))
L54 == Bind("L54", "L55", Line54(globals))
L55 == Bind("L55", "L57", Line55(globals))

\* A variant whose range yields one value more.
L57_OneMore ==
    /\ pc = "L57"
    /\ Idle
    /\ IF rng <= NumIters
         THEN /\ globals' = Line57(globals, rng)
              /\ rng' = rng + 1
              /\ pc' = "L58"
         ELSE /\ pc' = "L64"
              /\ UNCHANGED <<globals, rng>>
    /\ UNCHANGED <<stdout, calls, steps>>

\* for tt in range(5): bind the next value, or leave the loop when there is none
L57 ==
    /\ pc = "L57"
    /\ Idle
    /\ IF rng < NumIters
         THEN /\ globals' = Line57(globals, rng)
              /\ rng' = rng + 1
              /\ pc' = "L58"
         ELSE /\ pc' = "L64"
              /\ UNCHANGED <<globals, rng>>
    /\ UNCHANGED <<stdout, calls, steps>>

\* closure(state, control, dt): enter integrator
CallIntegrator(here, back, closure, state, control_, dt_) ==
    /\ pc = here
    /\ Idle
    /\ ifr' = IntegratorFrame(closure, state, control_, dt_)
    /\ ipc' = "L8"
    /\ pc' = back
    /\ UNCHANGED <<iret, dpc, nfr, hfr, dret>>

\* h_x0 = ham_dyns(h_x0, control, dt): the call
HamCall(here, back) ==
    /\ CallIntegrator(here, back, globals.ham_dyns, globals.h_x0, globals.control,
                      globals.dt)
    /\ UNCHANGED <<globals, rng, stdout, steps>>

\* h_x0 = ham_dyns(h_x0, control, dt): the assignment
HamAssign(here, next) ==
    /\ pc = here
    /\ Idle
    /\ globals' = Line58(globals, iret)
    /\ hSteps' = hSteps + 1
    /\ pc' = next
    /\ UNCHANGED <<rng, stdout, calls, nSteps, lSteps>>

\* n_x0 = newt_dyns(n_x0, control, dt): the call
NewtCall(here, back) ==
    /\ CallIntegrator(here, back, globals.newt_dyns, globals.n_x0, globals.control,
                      globals.dt)
    /\ UNCHANGED <<globals, rng, stdout, steps>>

\* n_x0 = newt_dyns(n_x0, control, dt): the assignment
NewtAssign(here, next) ==
    /\ pc = here
    /\ Idle
    /\ globals' = Line59(globals, iret)
    /\ nSteps' = nSteps + 1
    /\ pc' = next
    /\ UNCHANGED <<rng, stdout, calls, hSteps, lSteps>>

\* A variant that also prints the state it has computed.
LinAssign_Prints(here, next) ==
    /\ pc = here
    /\ Idle
    /\ globals' = Line60(globals)
    /\ stdout' = Append(stdout, <<"", Line60(globals).L_x0>>)
    /\ lSteps' = lSteps + 1
    /\ pc' = next
    /\ UNCHANGED <<rng, calls, hSteps, nSteps>>

\* L_x0 = A@L_x0+B@control
LinAssign(here, next) ==
    /\ pc = here
    /\ Idle
    /\ globals' = Line60(globals)
    /\ lSteps' = lSteps + 1
    /\ pc' = next
    /\ UNCHANGED <<rng, stdout, calls, hSteps, nSteps>>

L58call == HamCall("L58", "L58r")
L58 == HamAssign("L58r", "L59")
L59call == NewtCall("L59", "L59r")
L59 == NewtAssign("L59r", "L60")
L60 == LinAssign("L60", "L57")

\* print("Final Ham. State", h_x0)
L64 == Print_("L64", "L65", "Final Ham. State", globals.h_x0)

\* print("Final Newt State:", n_x0)
L65 == Print_("L65", "L66", "Final Newt State:", globals.n_x0)

\* print("Final Linear Newt State:", L_x0)
L66 == Print_("L66", "done", "Final Linear Newt State:", globals.L_x0)

Driver ==
    \/ L41 \/ L42 \/ L43 \/ L44 \/ L45 \/ L46 \/ L47 \/ L49 \/ L50 \/ L51
    \/ L52 \/ L53 \/ L54 \/ L55 \/ L57 \/ L58call \/ L58 \/ L59call \/ L59
    \/ L60 \/ L64 \/ L65 \/ L66

Next == Driver \/ Integrator \/ Dynamics

\* The script, run once.
Spec == Init /\ [][Next]_vars

\* The interpreter always executes the next statement.
FairSpec == Spec /\ WF_vars(Next)

----------------------------------------------------------------------------
(* The loop of the driver with its three simulations scheduled in any      *)
(* order: from the state the driver enters the loop in, each model's step  *)
(* is applied 5 times, the steps of different models interleaved freely.   *)

\* The names bound when the driver reaches line 57 for the first time.
SetUp ==
    Line55(Line54(Line53(Line51(Line50(Line49(Line47(Line46(Line45(Line44(
        Line43(Line42(Line41([n \in GlobalNames |-> Unbound])))))))))))))

InitPar ==
    /\ pc = "par"
    /\ globals = SetUp
    /\ rng = 0
    /\ stdout = << <<"", SetUp.L_x0>> >>
    /\ InitCalls
    /\ hSteps = 0
    /\ nSteps = 0
    /\ lSteps = 0

P58call ==
    /\ hSteps < NumIters
    /\ HamCall("par", "par58")

P58 == HamAssign("par58", "par")

P59call ==
    /\ nSteps < NumIters
    /\ NewtCall("par", "par59")

P59 == NewtAssign("par59", "par")

P60 ==
    /\ lSteps < NumIters
    /\ LinAssign("par", "par")

NextPar == P58call \/ P58 \/ P59call \/ P59 \/ P60 \/ Integrator \/ Dynamics

SpecPar == InitPar /\ [][NextPar]_vars

----------------------------------------------------------------------------
(* A caller of the functions: it builds two integrators from the same f    *)
(* and dt and then, several times over, applies one of them (step[1] or    *)
(* step[2]) and the linear model to a state and a step size of its choice, *)
(* under one control.  It keeps the last result of each integrator with    *)
(* the arguments that gave it, and whether that integrator had been called *)
(* before with other arguments.                                            *)

\* How many applications the caller makes.
MaxCalls == 3

\* The states, controls and step sizes the caller chooses from.
TestStates ==
    { <<RInt(0), RInt(0), Rat(15, 100), Rat(-15, 100)>>,
      <<RInt(1), Rat(-1, 2), Rat(30, 100), RInt(-3)>> }

TestControls == { <<Rat(1, 2), Rat(1, 2)>>, <<RInt(-1), RInt(3)>> }

TestSteps == { Rat(1, 1000), Rat(1, 2) }

InitCaller ==
    /\ pc = "test"
    /\ \E f \in DynamicsNames, dt0 \in TestSteps, u \in TestControls :
          globals = [f |-> f, dt0 |-> dt0, control |-> u,
                     step |-> <<discretize_dynamics_rk4(f, dt0),
                                discretize_dynamics_rk4(f, dt0)>>,
                     pending |-> Unbound,
                     args |-> <<Unbound, Unbound>>,
                     reused |-> <<FALSE, FALSE>>,
                     result |-> <<Unbound, Unbound>>,
                     lin_args |-> Unbound,
                     lin |-> Unbound]
    /\ rng = 0
    /\ stdout = <<>>
    /\ InitCalls
    /\ hSteps = 0
    /\ nSteps = 0
    /\ lSteps = 0

\* result[i] = step[i](state, control, dt): the call
TestCall ==
    /\ rng < MaxCalls
    /\ \E i \in {1, 2}, x \in TestStates, h \in TestSteps :
          /\ CallIntegrator("test", "testr", globals.step[i], x, globals.control, h)
          /\ globals' = [globals EXCEPT !.pending = <<i, <<x, globals.control, h>> >>]
    /\ rng' = rng + 1
    /\ UNCHANGED <<stdout, steps>>

\* result[i] = step[i](state, control, dt): the assignment
TestReturn ==
    /\ pc = "testr"
    /\ Idle
    /\ globals' = [globals EXCEPT !.reused[globals.pending[1]] =
                                      \/ @
                                      \/ globals.args[globals.pending[1]]
                                             \notin {Unbound, globals.pending[2]},
                                  !.args[globals.pending[1]] = globals.pending[2],
                                  !.result[globals.pending[1]] = iret]
    /\ pc' = "testl"
    /\ UNCHANGED <<rng, stdout, calls, steps>>

\* A, B = linear_dynamics(dt); lin = A @ state + B @ control
TestLinear ==
    /\ pc = "testl"
    /\ Idle
    /\ globals' = [globals EXCEPT
                      !.lin_args = globals.pending[2],
                      !.lin = LinearStep(linear_dynamics(globals.pending[2][3])[1],
                                         linear_dynamics(globals.pending[2][3])[2],
                                         globals.pending[2][1], globals.pending[2][2]),
                      !.pending = Unbound]
    /\ pc' = "test"
    /\ UNCHANGED <<rng, stdout, calls, steps>>

NextCaller == TestCall \/ TestReturn \/ TestLinear \/ Integrator \/ Dynamics

SpecCaller == InitCaller /\ [][NextCaller]_vars

----------------------------------------------------------------------------
(* Properties of the driver run.                                           *)

\* The driver stands between two iterations: k = lSteps iterations are
\* complete (k = 0 on entry to the loop, k = 5 when the loop is left).
BetweenIterations == pc = "L57"

\* The driver is at a statement of the loop (lines 57 to 60), a call made
\* from the loop possibly in progress.
InLoop == pc \in {"L57", "L58", "L58r", "L59", "L59r", "L60"}

\* The loop has been left.
AfterLoop == pc \in {"L64", "L65", "L66", "done"}

\* |x - y| <= tol
Within(x, y, tol) == RLe(RAbs(RSub(x, y)), tol)

\* C1: after every iteration k in 0..5 of the driver's loop (and from then
\* on to the end of the script) the Hamiltonian state's momenta are exactly
\* the Newtonian state's rates times the inertias:
\* h_x0[2] = Ix*n_x0[2] and h_x0[3] = Iy*n_x0[3] (0-based, as in the script).
C1_MomentumIsInertiaTimesRate ==
    (BetweenIterations \/ AfterLoop) =>
        /\ globals.Ix = RInt(2)
        /\ globals.Iy = RInt(2)
        /\ h_x0[3] = RMul(globals.Ix, n_x0[3])
        /\ h_x0[4] = RMul(globals.Iy, n_x0[4])

\* The loop is left after 5 iterations with matching, evolved momenta.
C1_Witness ==
    /\ BetweenIterations
    /\ hSteps = 5
    /\ nSteps = 5
    /\ n_x0[3] # Rat(15, 100)
    /\ h_x0[3] = RMul(RInt(2), n_x0[3])
    /\ h_x0[4] = RMul(RInt(2), n_x0[4])

\* C3: once newt_dyns has been applied exactly 5 times, the Newtonian state
\* is (0.00075, -0.00075, 0.15125, -0.14875) to within 1e-5 in every
\* component.
C3_NewtonianAfterFiveSteps ==
    (nSteps = 5) =>
        /\ Within(n_x0[1], Rat(75, 100000), Rat(1, 100000))
        /\ Within(n_x0[2], Rat(-75, 100000), Rat(1, 100000))
        /\ Within(n_x0[3], Rat(15125, 100000), Rat(1, 100000))
        /\ Within(n_x0[4], Rat(-14875, 100000), Rat(1, 100000))

\* The fifth Newtonian step has been applied; its exact result.
C3_Witness ==
    /\ nSteps = 5
    /\ pc = "L60"
    /\ n_x0 = <<Rat(753125, 1000000000), Rat(-746875, 1000000000),
                Rat(15125, 100000), Rat(-14875, 100000)>>

\* The state the three models start from, as printed on line 52.
InitialLinearState == <<RInt(0), RInt(0), Rat(15, 100), Rat(-15, 100)>>

\* A step of some model has been started or completed.
SomeStepApplied ==
    \/ hSteps + nSteps + lSteps > 0
    \/ pc \in {"L58r", "L59r"}

\* C5: the script prints exactly four vectors: the initial L_x0 before any
\* step of any model, nothing during the loop, and after all 5 iterations
\* the final Hamiltonian, Newtonian and linear states in that order.
C5_OutputOrder ==
    /\ SomeStepApplied =>
          /\ Len(stdout) >= 1
          /\ stdout[1] = <<"", InitialLinearState>>
    /\ InLoop => Len(stdout) = 1
    /\ Len(stdout) > 1 =>
          /\ AfterLoop
          /\ hSteps = 5
          /\ nSteps = 5
          /\ lSteps = 5
    /\ pc = "done" =>
          stdout = << <<"", InitialLinearState>>,
                      <<"Final Ham. State", h_x0>>,
                      <<"Final Newt State:", n_x0>>,
                      <<"Final Linear Newt State:", L_x0>> >>

\* The script has ended with its four lines of output, the last three
\* showing states that differ from the first.
C5_Witness ==
    /\ pc = "done"
    /\ Len(stdout) = 4
    /\ stdout[1][2] = InitialLinearState
    /\ stdout[2][2] = <<Rat(241, 320000), Rat(-239, 320000), Rat(121, 400), Rat(-119, 400)>>
    /\ stdout[3][2] = <<Rat(241, 320000), Rat(-239, 320000), Rat(121, 800), Rat(-119, 800)>>
    /\ stdout[4][2] = <<Rat(301, 400000), Rat(-299, 400000), Rat(121, 800), Rat(-119, 800)>>
    /\ stdout[4][2] = L_x0
    /\ L_x0 # InitialLinearState

\* C8: the driver always terminates, and then the loop body has run exactly
\* 5 times, each model's step having been applied exactly once in every
\* iteration (between two iterations the three counts equal the number of
\* iterations).
C8_TerminatesAfterFiveIterations ==
    /\ <>(pc = "done")
    /\ [](BetweenIterations =>
             /\ hSteps = lSteps
             /\ nSteps = lSteps
             /\ rng = lSteps)
    /\ [](AfterLoop =>
             /\ rng = 5
             /\ hSteps = 5
             /\ nSteps = 5
             /\ lSteps = 5)

\* The script has ended after 5 steps of each model.
C8_Witness ==
    /\ pc = "done"
    /\ ~ ENABLED Next
    /\ hSteps = 5
    /\ nSteps = 5
    /\ lSteps = 5

\* C9: throughout the loop control, dt, A and B keep the values they had
\* before it, A and B being linear_dynamics(dt); a step changes only the
\* state vector of its own model: h_x0 changes only in the assignment of
\* line 58, n_x0 only in that of line 59, L_x0 only in line 60, and each of
\* them leaves the other two state vectors as they were.
C9_Frame ==
    /\ []((InLoop \/ AfterLoop) =>
             /\ control = <<Rat(1, 2), Rat(1, 2)>>
             /\ dt = Rat(1, 1000)
             /\ A = linear_dynamics(dt)[1]
             /\ B = linear_dynamics(dt)[2])
    /\ [][InLoop =>
             /\ control' = control
             /\ dt' = dt
             /\ A' = A
             /\ B' = B
             /\ h_x0' # h_x0 => (pc = "L58r" /\ Idle /\ n_x0' = n_x0 /\ L_x0' = L_x0)
             /\ n_x0' # n_x0 => (pc = "L59r" /\ Idle /\ h_x0' = h_x0 /\ L_x0' = L_x0)
             /\ L_x0' # L_x0 => (pc = "L60" /\ h_x0' = h_x0 /\ n_x0' = n_x0)]_vars

\* All three state vectors have moved, while A, B, control and dt stand.
C9_Witness ==
    /\ pc = "L57"
    /\ lSteps = 5
    /\ h_x0 # <<RInt(0), RInt(0), Rat(30, 100), Rat(-30, 100)>>
    /\ n_x0 # InitialLinearState
    /\ L_x0 # InitialLinearState
    /\ A = linear_dynamics(Rat(1, 1000))[1]
    /\ B = linear_dynamics(Rat(1, 1000))[2]
    /\ control = <<Rat(1, 2), Rat(1, 2)>>

\* k * (T/I) * dt^2 / 2
EulerGap(k, T, I_, dt_) ==
    RDiv(RMul(RMul(RInt(k), RDiv(T, I_)), RMul(dt_, dt_)), RInt(2))

\* C10: after every iteration k in 0..5 the linear (Euler) state and the
\* Newtonian RK4 state have equal rates, and the Newtonian angles exceed the
\* linear ones by exactly k*(T_i/I_i)*dt^2/2: nothing for k = 0, more than
\* nothing for k >= 1, 6.25e-7 per axis for k = 5.
C10_EulerVersusRK4 ==
    BetweenIterations =>
        /\ L_x0[3] = n_x0[3]
        /\ L_x0[4] = n_x0[4]
        /\ RSub(n_x0[1], L_x0[1]) = EulerGap(lSteps, control[1], globals.Ix, dt)
        /\ RSub(n_x0[2], L_x0[2]) = EulerGap(lSteps, control[2], globals.Iy, dt)
        /\ lSteps >= 1 => /\ ~ RLe(RSub(n_x0[1], L_x0[1]), RInt(0))
                          /\ ~ RLe(RSub(n_x0[2], L_x0[2]), RInt(0))
        /\ lSteps = 5 => /\ RSub(n_x0[1], L_x0[1]) = Rat(625, 1000000000)
                         /\ RSub(n_x0[2], L_x0[2]) = Rat(625, 1000000000)

\* After the fifth iteration the angles differ by 6.25e-7 and the rates agree.
C10_Witness ==
    /\ BetweenIterations
    /\ lSteps = 5
    /\ RSub(n_x0[1], L_x0[1]) = Rat(625, 1000000000)
    /\ L_x0[3] = n_x0[3]

----------------------------------------------------------------------------
(* Properties of the loop under any schedule of its three simulations.     *)

\* The names bound after k iterations of the loop in the driver's order:
\* line 58, then line 59, then line 60.
RECURSIVE DriverOrder(_)
DriverOrder(k) ==
    IF k = 0
      THEN SetUp
      ELSE LET g0 == DriverOrder(k - 1)
               g1 == Line58(g0, integrator(g0.ham_dyns, g0.h_x0, g0.control, g0.dt))
               g2 == Line59(g1, integrator(g1.newt_dyns, g1.n_x0, g1.control, g1.dt))
           IN  Line60(g2)

\* C6: the three simulations do not interact: however the 15 step
\* applications are interleaved, a model that has made k of its steps has
\* the state the driver's order (Hamiltonian, Newtonian, linear in each
\* iteration) gives it after k iterations; with k = 5, the three final
\* states are those of the driver's order.
C6_OrderDoesNotMatter ==
    (pc = "par") =>
        /\ h_x0 = DriverOrder(hSteps).h_x0
        /\ n_x0 = DriverOrder(nSteps).n_x0
        /\ L_x0 = DriverOrder(lSteps).L_x0

\* All 15 steps have been applied, and on the way the linear model had
\* finished before the Hamiltonian one started: not the driver's order.
C6_Witness ==
    /\ pc = "par"
    /\ hSteps = 5
    /\ nSteps = 5
    /\ lSteps = 5
    /\ h_x0 = <<Rat(241, 320000), Rat(-239, 320000), Rat(121, 400), Rat(-119, 400)>>
    /\ n_x0 = <<Rat(241, 320000), Rat(-239, 320000), Rat(121, 800), Rat(-119, 800)>>
    /\ L_x0 = <<Rat(301, 400000), Rat(-299, 400000), Rat(121, 800), Rat(-119, 800)>>

----------------------------------------------------------------------------
(* Properties of the functions, for any caller.                            *)

\* The classical fourth-order Runge-Kutta step of size h for x' = f(x, u).
RungeKutta4(f, x, u, h) ==
    LET k1 == VScale(h, CallDynamics(f, x, u))
        k2 == VScale(h, CallDynamics(f, VAdd(x, VDiv(k1, RInt(2))), u))
        k3 == VScale(h, CallDynamics(f, VAdd(x, VDiv(k2, RInt(2))), u))
        k4 == VScale(h, CallDynamics(f, VAdd(x, k3), u))
        sum == VAdd(k1, VAdd(VScale(RInt(2), k2), VAdd(VScale(RInt(2), k3), k4)))
    IN  VAdd(x, VDiv(sum, RInt(6)))

\* step[i] has returned a result.
Returned(i) == globals.args[i] # Unbound

\* C2: what discretize_dynamics_rk4(f, dt0) returns, called with
\* (state, control, dt1), returns state + (k1 + 2*k2 + 2*k3 + k4)/6 with the
\* k computed with the step size dt1 of the call, whatever dt0 is.
C2_StepUsesCallTimeStepSize ==
    \A i \in {1, 2} :
        (pc = "test" /\ Returned(i)) =>
            globals.result[i] =
                RungeKutta4(globals.f, globals.args[i][1], globals.args[i][2],
                            globals.args[i][3])

\* An integrator built with dt0 = 0.001 has been called with dt1 = 0.5, and
\* what it returned is not the step of size dt0.
C2_Witness ==
    /\ pc = "test"
    /\ Returned(1)
    /\ globals.dt0 = Rat(1, 1000)
    /\ globals.args[1][3] = Rat(1, 2)
    /\ globals.result[1] =
           RungeKutta4(globals.f, globals.args[1][1], globals.args[1][2], Rat(1, 2))
    /\ globals.result[1] #
           RungeKutta4(globals.f, globals.args[1][1], globals.args[1][2], globals.dt0)

\* C4: two integrators built from the same f and dt and last applied to the
\* same (state, control, dt) have returned the same result, whatever calls
\* either of them served before.
C4_SameArgumentsSameResult ==
    (pc = "test" /\ Returned(1) /\ Returned(2) /\ globals.args[1] = globals.args[2])
        => globals.result[1] = globals.result[2]

\* step[1], called before with other arguments, and step[2], called once,
\* have been applied to the same arguments.
C4_Witness ==
    /\ pc = "test"
    /\ Returned(1)
    /\ Returned(2)
    /\ globals.args[1] = globals.args[2]
    /\ globals.reused[1]
    /\ ~ globals.reused[2]
    /\ globals.result[1] = globals.result[2]
    /\ globals.step[1] = globals.step[2]

\* The single explicit Euler step of size h of the Newtonian dynamics.
EulerStep(x, u, h) ==
    <<RAdd(x[1], RMul(h, x[3])),
      RAdd(x[2], RMul(h, x[4])),
      RAdd(x[3], RDiv(RMul(h, u[1]), RInt(2))),
      RAdd(x[4], RDiv(RMul(h, u[2]), RInt(2)))>>

\* C7: with (A, B) = linear_dynamics(dt), A @ state + B @ control is the
\* single explicit Euler step of the Newtonian dynamics,
\* (a1 + dt*r1, a2 + dt*r2, r1 + dt*T1/2, r2 + dt*T2/2), which is
\* state + dt*newtonian_dynamics(state, control).
C7_LinearModelIsEulerStep ==
    (pc = "test" /\ globals.lin_args # Unbound) =>
        /\ globals.lin =
               EulerStep(globals.lin_args[1], globals.lin_args[2], globals.lin_args[3])
        /\ globals.lin =
               VAdd(globals.lin_args[1],
                    VScale(globals.lin_args[3],
                           newtonian_dynamics(globals.lin_args[1], globals.lin_args[2])))

\* The linear model applied to (1, -0.5, 0.3, -3) under control (-1, 3) with
\* dt = 0.5 has given (1.15, -2, 0.05, -2.25).
C7_Witness ==
    /\ pc = "test"
    /\ globals.lin_args =
           << <<RInt(1), Rat(-1, 2), Rat(30, 100), RInt(-3)>>,
              <<RInt(-1), RInt(3)>>, Rat(1, 2) >>
    /\ globals.lin = <<Rat(115, 100), RInt(-2), Rat(5, 100), Rat(-225, 100)>>

=============================================================================
